---- MODULE Spec2Model ----
(***************************************************************************)
(* A model of gorails_downloader.py: the transfer manager (_download_file), *)
(* the playlist orchestrator (download_playlist), the bulk operation        *)
(* (download_all_series) and the commands of the command line.              *)
(*                                                                         *)
(* Sizes are counted in chunks: one unit is one chunk delivered by         *)
(* response.iter_content.  Every network call (page fetch, redirect, HEAD  *)
(* probe, content GET, one chunk of the body) is one step of the worker    *)
(* that issues it, and its outcome is chosen by the environment.           *)
(***************************************************************************)
EXTENDS Integers, Sequences, FiniteSets, TLC

\* ---------------------------------------------------------------- bounds
MaxEpisodes == 2
MaxSize == 2
MaxRuns == 2
\* the widest pool (--max-workers) that is tried; the program's default is 10
MaxWorkers == 2
\* the longest catalog of series
MaxSeries == 2
\* a playlist page: its hyperlinks outside containers, its episode containers,
\* and the hyperlinks inside one container
MaxLinks == 3
MaxContainers == 2
MaxInContainer == 2

\* ------------------------------------------------------------- filenames
\* Titles are sequences of characters.
Titles == { <<"a", ":">>, <<"a", "_">> }

UnsafeChars == {"<", ">", ":", "\"", "/", "\\", "|", "?", "*"}

\* re.sub(r'[<>:"/\\|?*]', '_', title)
SafeTitle(title) ==
    [k \in 1..Len(title) |-> IF title[k] \in UnsafeChars THEN "_" ELSE title[k]]

Digit(d) == <<"0", "1", "2", "3", "4", "5", "6", "7", "8", "9">>[d + 1]

RECURSIVE Decimal(_)
Decimal(v) == IF v < 10 THEN <<Digit(v)>> ELSE Decimal(v \div 10) \o <<Digit(v % 10)>>

\* f"{position:02d}"
Pad2(position) ==
    IF position < 10 THEN <<"0", Digit(position)>> ELSE Decimal(position)

\* position=None: a single video, whose filename carries no prefix
NoPosition == -1

\* lines 340-343 without the position prefix
FilenameNoPosition(position, title) == SafeTitle(title) \o <<".mp4">>

\* lines 340-343
Filename(position, title) ==
    IF position # NoPosition
    THEN Pad2(position) \o <<"_">> \o SafeTitle(title) \o <<".mp4">>
    ELSE SafeTitle(title) \o <<".mp4">>

\* enumerate(episode_links, 1): the position of the k-th expanded link
PositionFromZero(k) == k - 1

Position(k) == k

\* ------------------------------------------------------------ the state
VARIABLES
    max_workers,        \* self.max_workers: the width of the pool
    episode_links,      \* the expanded playlist: a sequence of episode ids
    page_title,         \* remote: the title on each episode's page
    content_size,       \* remote: the size of each episode's video
    disk,               \* the output directory: filename -> size, for the files that exist
    start_disk,         \* the output directory when the current run began
    run,                \* how many runs of download_playlist have begun
    force,              \* the --force flag of the current run
    phase,              \* "running" | "returned"
    w,                  \* per position: the worker's task (future) and its locals
    downloaded_videos,  \* the list download_playlist accumulates
    skipped_count,
    result,             \* the dict download_playlist returned
    prev,               \* the previous run: its force flag, whether it completed
                        \* the transfer of every episode, and the positions whose
                        \* transfer broke while streaming
    session,            \* self.session: the shared session's headers and cookies
    command,            \* the command of the command line that is running
    stage,              \* where the command is
    exit_code,          \* the process's exit code, once stage = "exited"
    series_list,        \* download_all_series: the catalog get_series_list returned
    series_index,       \* download_all_series: the loop's i
    downloaded_series,  \* download_all_series: the list it accumulates
    series_result,      \* the dict download_all_series returned
    series_outcome,     \* per series processed: whether download_playlist returned
                        \* a result ("result") or nothing ("None")
    page,               \* a playlist page: the hyperlinks found in it
    links,              \* the episode links expanded from that page
    video_page,         \* an episode page: what get_video_info looks at in it
    video_info          \* what get_video_info returned for that page

\* the variables of the command line and of download_all_series
cli_vars == <<command, stage, exit_code, series_list, series_index, downloaded_series,
              series_result, series_outcome>>

\* the variables of the playlist expander
expander_vars == <<page, links>>

\* the variables of the resource locator
locator_vars == <<video_page, video_info>>

outer_vars == <<cli_vars, expander_vars, locator_vars>>

vars == <<max_workers, episode_links, page_title, content_size, disk, start_disk, run, force,
          phase, w, downloaded_videos, skipped_count, result, prev, session, outer_vars>>

N == Len(episode_links)
Positions == 1..N

NoResult == [kind |-> "pending", title |-> <<>>, filename |-> <<>>, size |-> 0,
             skipped |-> FALSE]
ReturnedNone == [NoResult EXCEPT !.kind = "None"]
Raised == [NoResult EXCEPT !.kind = "raised"]

\* ------------------------------------------------------------- sessions
\* a requests.Session: its default headers and its cookie jar (name -> value)
NoSession == [headers |-> {}, cookies |-> <<>>]

\* requests.Session() followed by headers.update({'User-Agent': ...})
\* (lines 175-178 and 185-188)
NewSession == [headers |-> {"User-Agent"}, cookies |-> <<>>]

\* cookies.set(name, value), and what a Set-Cookie header of a response does to
\* the jar of the session that sent the request
SetCookie(s, name, value) ==
    [s EXCEPT !.cookies = [n \in DOMAIN s.cookies \cup {name} |->
                              IF n = name THEN value ELSE s.cookies[n]]]

\* _create_session: a new session whose jar gets a copy of the shared session's
\* cookies
CreateSessionWithoutCookies == NewSession

CreateSession == [NewSession EXCEPT !.cookies = session.cookies]

\* the site's pages answer with a Set-Cookie header that rotates the session
\* cookie
PageResponse(s) == SetCookie(s, "_gorails_session", "rotated")

\* the session argument download_video gets: _download_video_parallel passes
\* the worker's own session (line 514), the video command passes none
\* (line 751), and then self.session is used (lines 213, 292, 310, 333)
SessionArgNone == "shared"

SessionArg == IF command = "video" THEN "shared" ELSE "own"

\* the position argument: the playlist passes the ordinal position, the video
\* command none
PositionArg(p) == IF command = "video" THEN NoPosition ELSE Position(p)

\* a task as submitted to the executor; shared_requests counts the requests the
\* task sent on the shared session, broke records that its transfer broke while
\* streaming, calls lists the functions download_video has called, in the order
\* of the calls, and failed_in names the one among get_video_info and
\* get_direct_video_url that returned None
Queued ==
    [pc |-> "queued", collected |-> FALSE, title |-> <<>>, filename |-> <<>>,
     pre_exists |-> FALSE, pre_size |-> 0,
     heads |-> 0, h1_ok |-> FALSE, h1_size |-> 0, h2_ok |-> FALSE, h2_size |-> 0,
     local_size |-> 0, resume_download |-> FALSE, start_byte |-> 0,
     gets |-> 0, range |-> FALSE, file_mode |-> "", total_size |-> 0,
     downloaded |-> 0, body |-> 0, out |-> NoResult,
     session |-> NoSession, shared_requests |-> 0, broke |-> FALSE,
     calls |-> <<>>, failed_in |-> ""]

\* download_playlist has not returned
NotReturned == [total_episodes |-> 0, downloaded |-> 0, skipped |-> 0, videos |-> <<>>]

Exists(f) == f \in DOMAIN disk
GetSize(f) == disk[f]

\* open(filepath, 'wb'): create or truncate; open(filepath, 'ab'): create or keep
OpenFile(d, f, mode) ==
    [g \in DOMAIN d \cup {f} |-> IF g = f
                                 THEN (IF mode = "wb" \/ g \notin DOMAIN d THEN 0 ELSE d[g])
                                 ELSE d[g]]

WriteChunk(d, f) == [d EXCEPT ![f] = @ + 1]

\* no run came before
NoPrev == [ran |-> FALSE, force |-> FALSE, complete |-> FALSE, broke |-> {}]

\* no playlist page is being expanded
NoPage == [containers |-> <<>>, anchors |-> <<>>]

\* no episode page is being looked at, and get_video_info has not returned
NoVideoPage == [fetched |-> FALSE]
NoInfo == [kind |-> "pending"]

\* download_all_series has not returned
NoSeriesResult == [total_series |-> 0, downloaded_series |-> 0, series |-> <<>>]

\* The playlist command, authenticated, at the point where download_playlist has
\* expanded the playlist page.
\* A playlist of up to MaxEpisodes episodes of MaxSize chunks each, whose pages
\* all carry the same title, and an output directory that is empty or holds a
\* part of the first episode, left by an interrupted transfer.
Init ==
    /\ max_workers \in 1..MaxWorkers
    /\ \E k \in 1..MaxEpisodes : episode_links = [p \in 1..k |-> p]
    /\ \E t \in Titles : page_title = [u \in 1..Len(episode_links) |-> t]
    /\ content_size = [u \in 1..Len(episode_links) |-> MaxSize]
    /\ \/ disk = <<>>
       \/ \E s \in 1..(MaxSize - 1) :
            disk = [f \in {Filename(Position(1), page_title[1])} |-> s]
    /\ start_disk = disk
    /\ run = 1
    /\ force \in BOOLEAN
    /\ phase = "running"
    /\ w = [p \in 1..Len(episode_links) |-> Queued]
    /\ downloaded_videos = <<>>
    /\ skipped_count = 0
    /\ result = NotReturned
    /\ prev = NoPrev
    /\ session = SetCookie(NewSession, "_gorails_session", "saved")
    /\ command = "playlist"
    /\ stage = "operation"
    /\ exit_code = 0
    /\ series_list = <<>>
    /\ series_index = 0
    /\ downloaded_series = <<>>
    /\ series_result = NoSeriesResult
    /\ series_outcome = <<>>
    /\ page = NoPage
    /\ links = <<>>
    /\ video_page = NoVideoPage
    /\ video_info = NoInfo


\* ------------------------------------------------------- _download_file
\* os.path.exists(filepath) and not force   (lines 348 and 406)
CheckExistingIgnoresForce(exists, f) == exists

CheckExisting(exists, f) == exists /\ ~f

\* the three branches after the first probe (lines 356, 369, 375)
ReconcileResumesComplete(remote_size, local_size) ==
    IF remote_size > 0 /\ local_size > remote_size THEN "skip"
    ELSE IF remote_size > 0 /\ local_size <= remote_size THEN "resume"
    ELSE "skip_unknown"

Reconcile(remote_size, local_size) ==
    IF remote_size > 0 /\ local_size >= remote_size THEN "skip"
    ELSE IF remote_size > 0 /\ local_size < remote_size THEN "resume"
    ELSE "skip_unknown"

\* the test after the second probe (line 413)
ShouldResume(remote_size, local_size) == remote_size > 0 /\ local_size < remote_size

\* the 'size' of a skipped outcome (lines 366, 385, 399)
SkippedSizeIsRemote(local_size, remote_size) == remote_size

SkippedSize(local_size, remote_size) == local_size

SkippedOutcome(t, local_size, remote_size) ==
    [kind |-> "result", title |-> t.title, filename |-> t.filename,
     size |-> SkippedSize(local_size, remote_size), skipped |-> TRUE]

\* the dict returned after a transfer (lines 497-502): no 'skipped' key
DownloadedOutcome(t) ==
    [kind |-> "result", title |-> t.title, filename |-> t.filename,
     size |-> t.total_size, skipped |-> FALSE]

\* what a HEAD probe can answer for episode u: its content-length header, which is
\* the size of the content, or 0 when the header is missing
HeadReplies(u) == {0, content_size[u]}

Url(p) == episode_links[p]

\* _download_file up to its first network call: the filename, and the first
\* os.path.exists test (lines 336-348, 403-406, 431-434)
EnterDownloadFile(t, p) ==
    LET fn == Filename(PositionArg(p), t.title)
        t1 == [t EXCEPT !.calls = Append(@, "_download_file"),
                        !.filename = fn,
                        !.pre_exists = Exists(fn),
                        !.pre_size = IF Exists(fn) THEN GetSize(fn) ELSE 0]
    IN  IF CheckExisting(Exists(fn), force)
        THEN [t1 EXCEPT !.pc = "head1"]
        ELSE [t1 EXCEPT !.pc = "get"]

Finish(t, outcome) == [t EXCEPT !.pc = "done", !.out = outcome]

\* the order in which download_video calls its three functions
Pipeline == <<"get_video_info", "get_direct_video_url", "_download_file">>

\* download_video calls one of its three functions (lines 314, 319, 324)
Invoked(t, function) == [t EXCEPT !.calls = Append(@, function)]

\* 'if not video_info: return None' and 'if not direct_url: return None'
\* (lines 315-316, 320-321)
ReturnNone(t, function) == Finish([t EXCEPT !.failed_in = function], ReturnedNone)

\* a request of task t goes out on the session download_video was given
Sent(t) ==
    IF SessionArg = "shared" THEN [t EXCEPT !.shared_requests = @ + 1] ELSE t

\* ------------------------------------------------------------- workers
\* the pool's threads that are busy: the tasks taken from the queue and not
\* finished
NoneActive == {}

Active == {p \in Positions : w[p].pc \notin {"queued", "done"}}

\* the pool takes a queued task when a thread is free; the task begins with
\* _create_session (_download_video_parallel, lines 512-513)
StartWorker(p) ==
    /\ phase = "running"
    /\ w[p].pc = "queued"
    /\ \A q \in 1..(p - 1) : w[q].pc # "queued"     \* the pool's queue is FIFO
    /\ Cardinality(Active) < max_workers
    /\ w' = [w EXCEPT ![p].pc = "info", ![p].session = CreateSession]
    /\ UNCHANGED <<max_workers, episode_links, page_title, content_size, disk, start_disk, run,
                   force, phase, downloaded_videos, skipped_count, result, prev>>
    /\ UNCHANGED <<session, outer_vars>>

\* an exception escapes _download_video_parallel, so that future.result() raises
\* (line 615): _create_session runs outside download_video's try, and so does a
\* console.print inside download_video's own except branch
WorkerRaises(p) ==
    /\ phase = "running"
    /\ w[p].pc = "info"
    /\ w' = [w EXCEPT ![p] = Finish(@, Raised)]
    /\ UNCHANGED <<max_workers, episode_links, page_title, content_size, disk, start_disk, run,
                   force, phase, downloaded_videos, skipped_count, result, prev>>
    /\ UNCHANGED <<session, outer_vars>>

\* get_video_info: the page fetch fails or has no download link (None), or it
\* yields the title
GetVideoInfo(p) ==
    /\ phase = "running"
    /\ w[p].pc = "info"
    /\ LET t == Invoked(Sent(w[p]), "get_video_info")
       IN  \/ /\ w' = [w EXCEPT ![p] = ReturnNone(t, "get_video_info")]
              /\ session' = session
           \/ /\ w' = [w EXCEPT ![p] =
                         [t EXCEPT !.pc = "redirect", !.title = page_title[Url(p)],
                                   !.session = IF SessionArg = "own"
                                               THEN PageResponse(@) ELSE @]]
              /\ session' = IF SessionArg = "own" THEN session
                            ELSE PageResponse(session)
    /\ UNCHANGED <<max_workers, episode_links, page_title, content_size, disk, start_disk, run,
                   force, phase, downloaded_videos, skipped_count, result, prev>>
    /\ UNCHANGED outer_vars

\* get_direct_video_url: fails (None), or download_video goes on into
\* _download_file
GetDirectVideoUrlGoesOn(p) ==
    /\ phase = "running"
    /\ w[p].pc = "redirect"
    /\ LET t == Invoked(Sent(w[p]), "get_direct_video_url")
       IN  \/ w' = [w EXCEPT ![p] =
                      EnterDownloadFile([t EXCEPT !.failed_in = "get_direct_video_url"], p)]
           \/ w' = [w EXCEPT ![p] = EnterDownloadFile(t, p)]
    /\ UNCHANGED <<max_workers, episode_links, page_title, content_size, disk, start_disk, run,
                   force, phase, downloaded_videos, skipped_count, result, prev>>
    /\ UNCHANGED <<session, outer_vars>>

GetDirectVideoUrl(p) ==
    /\ phase = "running"
    /\ w[p].pc = "redirect"
    /\ LET t == Invoked(Sent(w[p]), "get_direct_video_url")
       IN  \/ w' = [w EXCEPT ![p] = ReturnNone(t, "get_direct_video_url")]
           \/ w' = [w EXCEPT ![p] = EnterDownloadFile(t, p)]
    /\ UNCHANGED <<max_workers, episode_links, page_title, content_size, disk, start_disk, run,
                   force, phase, downloaded_videos, skipped_count, result, prev>>
    /\ UNCHANGED <<session, outer_vars>>

\* the first probe and the branches on it (lines 349-401), then the second
\* os.path.exists test and getsize (lines 406-408)
Head1(p) ==
    /\ phase = "running"
    /\ w[p].pc = "head1"
    /\ LET t == [Sent(w[p]) EXCEPT !.heads = @ + 1]
           local == GetSize(t.filename)
       IN  \/ \* session.head or raise_for_status raises: the except branch
              w' = [w EXCEPT ![p] =
                      Finish([t EXCEPT !.local_size = local], SkippedOutcome(t, local, 0))]
           \/ \E h \in HeadReplies(Url(p)) :
                LET t1 == [t EXCEPT !.h1_ok = TRUE, !.h1_size = h, !.local_size = local]
                IN  IF Reconcile(h, local) = "resume"
                    THEN w' = [w EXCEPT ![p] =
                                 IF CheckExisting(Exists(t.filename), force)
                                 THEN [t1 EXCEPT !.pc = "head2"]
                                 ELSE [t1 EXCEPT !.pc = "get"]]
                    ELSE w' = [w EXCEPT ![p] = Finish(t1, SkippedOutcome(t, local, h))]
    /\ UNCHANGED <<max_workers, episode_links, page_title, content_size, disk, start_disk, run,
                   force, phase, downloaded_videos, skipped_count, result, prev>>
    /\ UNCHANGED <<session, outer_vars>>

\* the second probe (lines 409-418)
Head2(p) ==
    /\ phase = "running"
    /\ w[p].pc = "head2"
    /\ LET t == [Sent(w[p]) EXCEPT !.heads = @ + 1, !.pc = "get"]
       IN  \/ \* the probe raises: resume_download stays False, start_byte 0
              w' = [w EXCEPT ![p] = t]
           \/ \E h \in HeadReplies(Url(p)) :
                w' = [w EXCEPT ![p] =
                        IF ShouldResume(h, t.local_size)
                        THEN [t EXCEPT !.h2_ok = TRUE, !.h2_size = h,
                                       !.resume_download = TRUE,
                                       !.start_byte = t.local_size]
                        ELSE [t EXCEPT !.h2_ok = TRUE, !.h2_size = h]]
    /\ UNCHANGED <<max_workers, episode_links, page_title, content_size, disk, start_disk, run,
                   force, phase, downloaded_videos, skipped_count, result, prev>>
    /\ UNCHANGED <<session, outer_vars>>

\* the content GET (lines 431-451): it fails, or the response arrives and the
\* file is opened.  The server honours a Range header or answers with the whole
\* body; the content-length header is the length of the body, or is missing.
Get(p) ==
    /\ phase = "running"
    /\ w[p].pc = "get"
    /\ LET t == [Sent(w[p]) EXCEPT !.gets = @ + 1, !.range = w[p].resume_download]
       IN  \/ \* session.get or raise_for_status raises
              /\ w' = [w EXCEPT ![p] = Finish(t, ReturnedNone)]
              /\ disk' = disk
           \/ \E honoured \in BOOLEAN, has_length \in BOOLEAN :
                LET size == content_size[Url(p)]
                    bytes == IF t.range /\ honoured /\ t.start_byte <= size
                             THEN size - t.start_byte ELSE size
                    length == IF has_length THEN bytes ELSE 0
                    mode == IF t.resume_download THEN "ab" ELSE "wb"
                IN  /\ w' = [w EXCEPT ![p] =
                               [t EXCEPT !.pc = "stream", !.body = bytes,
                                         !.total_size = IF t.resume_download
                                                        THEN length + t.start_byte
                                                        ELSE length,
                                         !.file_mode = mode,
                                         !.downloaded = t.start_byte]]
                    /\ disk' = OpenFile(disk, t.filename, mode)
    /\ UNCHANGED <<max_workers, episode_links, page_title, content_size, start_disk, run,
                   force, phase, downloaded_videos, skipped_count, result, prev>>
    /\ UNCHANGED <<session, outer_vars>>

\* one chunk of the body is written (lines 453-457)
Chunk(p) ==
    /\ phase = "running"
    /\ w[p].pc = "stream"
    /\ w[p].body > 0
    /\ w' = [w EXCEPT ![p].body = @ - 1, ![p].downloaded = @ + 1]
    /\ disk' = WriteChunk(disk, w[p].filename)
    /\ UNCHANGED <<max_workers, episode_links, page_title, content_size, start_disk, run,
                   force, phase, downloaded_videos, skipped_count, result, prev>>
    /\ UNCHANGED <<session, outer_vars>>

\* the connection breaks while streaming: the except branch (lines 504-508)
StreamError(p) ==
    /\ phase = "running"
    /\ w[p].pc = "stream"
    /\ w[p].body > 0
    /\ w' = [w EXCEPT ![p] = Finish([@ EXCEPT !.broke = TRUE], ReturnedNone)]
    /\ UNCHANGED <<max_workers, episode_links, page_title, content_size, disk, start_disk, run,
                   force, phase, downloaded_videos, skipped_count, result, prev>>
    /\ UNCHANGED <<session, outer_vars>>

\* the body ends: the file is closed and the outcome returned (lines 459, 485-502)
StreamEnd(p) ==
    /\ phase = "running"
    /\ w[p].pc = "stream"
    /\ w[p].body = 0
    /\ w' = [w EXCEPT ![p] = Finish(@, DownloadedOutcome(@))]
    /\ UNCHANGED <<max_workers, episode_links, page_title, content_size, disk, start_disk, run,
                   force, phase, downloaded_videos, skipped_count, result, prev>>
    /\ UNCHANGED <<session, outer_vars>>

\* ---------------------------------------------------- download_playlist
\* download_playlist is running: the playlist command, or download_all_series
InPlaylist == command \in {"playlist", "all-series"}

\* if result: ... downloaded_videos.append(result)   (line 611)
KeepsEveryFuture(outcome) == TRUE

Keeps(outcome) == outcome.kind = "result"

\* progress.add_task numbers the tasks of the progress bar from 0, in the order
\* in which they are added (lines 590-593)
TaskId(position) == position - 1

\* download_tasks_with_progress (lines 574, 596-599): one tuple per expanded
\* link, in the order of the links
DownloadTasks ==
    [i \in 1..Len(episode_links) |->
        [url |-> episode_links[i], position |-> Position(i), force |-> force,
         task_id |-> TaskId(Position(i))]]

\* a future that as_completed yields again: it is not marked as consumed
ConsumedNotMarked(t) ==
    [Queued EXCEPT !.pc = "done", !.out = t.out, !.broke = t.broke]

\* a future that was yielded: the call's locals are gone, its outcome is kept
Consumed(t) ==
    [Queued EXCEPT !.pc = "done", !.collected = TRUE, !.out = t.out, !.broke = t.broke]

\* as_completed yields a finished future (lines 607-616)
CollectCancelsStalled(p) ==
    /\ InPlaylist
    /\ phase = "running"
    /\ w[p].pc \in {"done", "stalled"}
    /\ ~w[p].collected
    /\ w' = [w EXCEPT ![p] = Consumed(@)]
    /\ IF Keeps(w[p].out)
       THEN /\ downloaded_videos' = Append(downloaded_videos, w[p].out)
            /\ skipped_count' = IF w[p].out.skipped THEN skipped_count + 1
                                ELSE skipped_count
       ELSE UNCHANGED <<downloaded_videos, skipped_count>>
    /\ UNCHANGED <<max_workers, episode_links, page_title, content_size, disk, start_disk, run,
                   force, phase, result, prev>>
    /\ UNCHANGED <<session, outer_vars>>

Collect(p) ==
    /\ InPlaylist
    /\ phase = "running"
    /\ w[p].pc = "done"
    /\ ~w[p].collected
    /\ w' = [w EXCEPT ![p] = Consumed(@)]
    /\ IF Keeps(w[p].out)
       THEN /\ downloaded_videos' = Append(downloaded_videos, w[p].out)
            /\ skipped_count' = IF w[p].out.skipped THEN skipped_count + 1
                                ELSE skipped_count
       ELSE UNCHANGED <<downloaded_videos, skipped_count>>
    /\ UNCHANGED <<max_workers, episode_links, page_title, content_size, disk, start_disk, run,
                   force, phase, result, prev>>
    /\ UNCHANGED <<session, outer_vars>>

\* every future was yielded: the pool is shut down and the dict returned
\* (lines 618-624)
ReturnAfterFirstFuture ==
    /\ InPlaylist
    /\ phase = "running"
    /\ \E p \in Positions : w[p].collected
    /\ phase' = "returned"
    /\ result' = [total_episodes |-> Len(episode_links),
                  downloaded |-> Len(downloaded_videos) - skipped_count,
                  skipped |-> skipped_count,
                  videos |-> downloaded_videos]
    /\ UNCHANGED <<max_workers, episode_links, page_title, content_size, disk, start_disk, run,
                   force, w, downloaded_videos, skipped_count, prev>>
    /\ UNCHANGED <<session, outer_vars>>

ReturnCountsEveryVideoAsDownloaded ==
    /\ InPlaylist
    /\ phase = "running"
    /\ \A p \in Positions : w[p].collected
    /\ phase' = "returned"
    /\ result' = [total_episodes |-> Len(episode_links),
                  downloaded |-> Len(downloaded_videos),
                  skipped |-> skipped_count,
                  videos |-> downloaded_videos]
    /\ UNCHANGED <<max_workers, episode_links, page_title, content_size, disk, start_disk, run,
                   force, w, downloaded_videos, skipped_count, prev>>
    /\ UNCHANGED <<session, outer_vars>>

Return ==
    /\ InPlaylist
    /\ phase = "running"
    /\ \A p \in Positions : w[p].collected
    /\ phase' = "returned"
    /\ result' = [total_episodes |-> Len(episode_links),
                  downloaded |-> Len(downloaded_videos) - skipped_count,
                  skipped |-> skipped_count,
                  videos |-> downloaded_videos]
    /\ UNCHANGED <<max_workers, episode_links, page_title, content_size, disk, start_disk, run,
                   force, w, downloaded_videos, skipped_count, prev>>
    /\ UNCHANGED <<session, outer_vars>>

\* the playlist command is run again on the same playlist and output directory
Rerun ==
    /\ phase = "returned"
    /\ run < MaxRuns
    /\ run' = run + 1
    /\ force' \in BOOLEAN
    /\ phase' = "running"
    /\ prev' = [ran |-> TRUE, force |-> force,
                complete |-> result.downloaded = result.total_episodes,
                broke |-> {p \in Positions : w[p].broke}]
    /\ result' = NotReturned
    /\ start_disk' = disk
    /\ w' = [p \in Positions |-> Queued]
    /\ downloaded_videos' = <<>>
    /\ skipped_count' = 0
    /\ UNCHANGED <<max_workers, episode_links, page_title, content_size, disk>>
    /\ UNCHANGED <<session, outer_vars>>

\* the playlist command is run again once the playlist is fully downloaded
\* (the run before completed every transfer)
RerunAfterComplete ==
    /\ result.downloaded = result.total_episodes
    /\ Rerun

\* a step of one task of the pool, or of the main thread consuming a future
PoolNext ==
    \/ \E p \in Positions : StartWorker(p)
    \/ \E p \in Positions : GetVideoInfo(p)
    \/ \E p \in Positions : GetDirectVideoUrl(p)
    \/ \E p \in Positions : Head1(p)
    \/ \E p \in Positions : Head2(p)
    \/ \E p \in Positions : Get(p)
    \/ \E p \in Positions : Chunk(p)
    \/ \E p \in Positions : StreamError(p)
    \/ \E p \in Positions : StreamEnd(p)
    \/ \E p \in Positions : Collect(p)
    \/ \E p \in Positions : WorkerRaises(p)

\* a playlist of up to MaxEpisodes episodes, downloaded into an empty directory
\* and then again each time it was fully downloaded
Next ==
    \/ PoolNext
    \/ Return
    \/ RerunAfterComplete

Spec == Init /\ [][Next]_vars

\* one episode, run again whatever the run before left on disk
NextFile ==
    \/ PoolNext
    \/ Return
    \/ Rerun

\* ------------------------------------------------- calls that never return
\* No request carries a timeout (lines 216, 295, 351, 409, 436) and the read of
\* the next chunk has none either (line 453): a call that the remote end leaves
\* unanswered blocks its thread for ever.
Stall(p) ==
    /\ phase = "running"
    /\ w[p].pc \in {"info", "redirect", "head1", "head2", "get", "stream"}
    /\ w' = [w EXCEPT ![p].pc = "stalled"]
    /\ UNCHANGED <<max_workers, episode_links, page_title, content_size, disk, start_disk, run,
                   force, phase, downloaded_videos, skipped_count, result, prev>>
    /\ UNCHANGED <<session, outer_vars>>

\* one run of download_playlist in which calls may stall
NextLive ==
    \/ PoolNext
    \/ Return
    \/ \E p \in Positions : Stall(p)

\* the threads of the pool and the main thread keep running: a step of a task
\* or of the loop over the futures that can be taken is taken
SpecLive == Init /\ [][NextLive]_vars /\ WF_vars(PoolNext) /\ WF_vars(Return)

\* ----------------------------------------------------- the command line
Commands == {"video", "playlist", "all-series", "auth"}

\* the variables of a playlist run that the command line leaves alone
run_vars == <<max_workers, page_title, content_size, run, force, prev, start_disk>>

pool_vars == <<episode_links, w, downloaded_videos, skipped_count, result>>

series_vars == <<series_list, series_index, downloaded_series, series_result,
                 series_outcome>>

\* authenticate (lines 193-208): a saved or a fresh session id is set as the
\* shared session's cookie, or there is none
Authenticate ==
    /\ stage = "start"
    /\ \/ /\ session' = SetCookie(session, "_gorails_session", "saved")
          /\ stage' = "operation"
       \/ /\ session' = session
          /\ stage' = "denied"
    /\ UNCHANGED <<run_vars, pool_vars, series_vars, disk, phase, command, exit_code,
                   expander_vars, locator_vars>>

\* sys.exit(1) after a failed authenticate (lines 747-749, 770-772, 790-792,
\* 811-813)
DeniedExit ==
    /\ stage = "denied"
    /\ stage' = "exited"
    /\ exit_code' = 1
    /\ UNCHANGED <<run_vars, pool_vars, series_vars, disk, phase, command, session,
                   expander_vars, locator_vars>>

\* the auth command after a successful authenticate (lines 809-810)
AuthExit ==
    /\ command = "auth"
    /\ stage = "operation"
    /\ stage' = "exited"
    /\ exit_code' = 0
    /\ UNCHANGED <<run_vars, pool_vars, series_vars, disk, phase, command, session,
                   expander_vars, locator_vars>>

\* the video command calls download_video(url, force=force) on the main thread,
\* with no position and no session (line 751)
VideoCommand ==
    /\ command = "video"
    /\ stage = "operation"
    /\ phase = "idle"
    /\ phase' = "running"
    /\ episode_links' = <<1>>
    /\ w' = <<[Queued EXCEPT !.pc = "info"]>>
    /\ UNCHANGED <<run_vars, downloaded_videos, skipped_count, result, series_vars, disk,
                   command, stage, exit_code, session, expander_vars, locator_vars>>

\* download_video returned, or an exception escaped it and ends the process
\* (lines 752-759)
VideoExitFailsOnSkipped ==
    /\ command = "video"
    /\ phase = "running"
    /\ w[1].pc = "done"
    /\ phase' = "idle"
    /\ stage' = "exited"
    /\ exit_code' = IF w[1].out.kind = "result" /\ ~w[1].out.skipped THEN 0 ELSE 1
    /\ UNCHANGED <<run_vars, pool_vars, series_vars, disk, command, session,
                   expander_vars, locator_vars>>

VideoExit ==
    /\ command = "video"
    /\ phase = "running"
    /\ w[1].pc = "done"
    /\ phase' = "idle"
    /\ stage' = "exited"
    /\ exit_code' = IF w[1].out.kind = "result" THEN 0 ELSE 1
    /\ UNCHANGED <<run_vars, pool_vars, series_vars, disk, command, session,
                   expander_vars, locator_vars>>

\* the playlist command calls download_playlist (line 774)
PlaylistCommand ==
    /\ command = "playlist"
    /\ stage = "operation"
    /\ phase = "idle"
    /\ phase' = "called"
    /\ UNCHANGED <<run_vars, pool_vars, series_vars, disk, command, stage, exit_code,
                   session, expander_vars, locator_vars>>

\* download_playlist up to the submission of the tasks (lines 518-604): the
\* page fetch raises, or the page holds no episode link, and None is returned
\* (lines 567-569, 626-628); or the page expands to k episode links, and then
\* ThreadPoolExecutor(max_workers=...) raises ValueError for a width below 1
\* (line 602), which the except of lines 626-628 turns into None
FetchPlaylist ==
    /\ phase = "called"
    /\ \/ /\ phase' = "failed"
          /\ session' \in {session, PageResponse(session)}
          /\ UNCHANGED pool_vars
       \/ /\ max_workers < 1
          /\ phase' = "pool_failed"
          /\ session' = PageResponse(session)
          /\ UNCHANGED pool_vars
       \/ \E k \in 1..MaxEpisodes :
            /\ max_workers >= 1
            /\ phase' = "running"
            /\ session' = PageResponse(session)
            /\ episode_links' = [p \in 1..k |-> p]
            /\ w' = [p \in 1..k |-> Queued]
            /\ downloaded_videos' = <<>>
            /\ skipped_count' = 0
            /\ result' = NotReturned
    /\ UNCHANGED <<run_vars, series_vars, disk, command, stage, exit_code, expander_vars, locator_vars>>

\* download_playlist returned to the playlist command (lines 775-780)
PlaylistExitFailsWhenNothingDownloaded ==
    /\ command = "playlist"
    /\ stage = "operation"
    /\ phase \in {"returned", "failed", "pool_failed"}
    /\ stage' = "exited"
    /\ exit_code' = IF phase = "returned" /\ result.downloaded + result.skipped > 0
                    THEN 0 ELSE 1
    /\ UNCHANGED <<run_vars, pool_vars, series_vars, disk, phase, command, session,
                   expander_vars, locator_vars>>

PlaylistExit ==
    /\ command = "playlist"
    /\ stage = "operation"
    /\ phase \in {"returned", "failed", "pool_failed"}
    /\ stage' = "exited"
    /\ exit_code' = IF phase = "returned" THEN 0 ELSE 1
    /\ UNCHANGED <<run_vars, pool_vars, series_vars, disk, phase, command, session,
                   expander_vars, locator_vars>>

\* ---------------------------------------------------- download_all_series
\* the entry of a series whose playlist returned a result (lines 690-698); a
\* series is named by its place in the catalog
SeriesEntry(series, r) ==
    [slug |-> series, total_episodes |-> r.total_episodes, downloaded |-> r.downloaded,
     skipped |-> r.skipped, videos |-> r.videos]

\* get_series_list (lines 630-663) and the test on its result (lines 669-673):
\* the catalog page yields c series; a fetch that raises yields the empty list
GetSeriesList ==
    /\ command = "all-series"
    /\ stage = "operation"
    /\ \E c \in 0..MaxSeries :
          /\ series_list' = [i \in 1..c |-> i]
          /\ IF c = 0
             THEN /\ stage' = "returned_none"
                  /\ series_index' = series_index
                  /\ session' \in {session, PageResponse(session)}
             ELSE /\ stage' = "series"
                  /\ series_index' = 1
                  /\ session' = PageResponse(session)
    /\ UNCHANGED <<run_vars, pool_vars, downloaded_series, series_result, series_outcome,
                   disk, phase, command, exit_code, expander_vars, locator_vars>>

\* the loop body up to the call of download_playlist (lines 676-688): the
\* series gets its own directory and its own downloader, which shares the
\* session and the pool width
EnterSeries ==
    /\ stage = "series"
    /\ phase = "idle"
    /\ series_index <= Len(series_list)
    /\ phase' = "called"
    /\ disk' = <<>>
    /\ UNCHANGED <<run_vars, pool_vars, series_vars, command, stage, exit_code, session,
                   expander_vars, locator_vars>>

\* download_playlist returned to the loop (lines 689-702)
LeaveSeriesWhileRunning ==
    /\ stage = "series"
    /\ phase \in {"running", "returned", "failed", "pool_failed"}
    /\ phase' = "idle"
    /\ downloaded_series' =
           IF phase \in {"running", "returned"}
           THEN Append(downloaded_series, SeriesEntry(series_list[series_index], result))
           ELSE downloaded_series
    /\ series_outcome' = Append(series_outcome,
                                IF phase \in {"running", "returned"} THEN "result"
                                ELSE "None")
    /\ series_index' = series_index + 1
    /\ UNCHANGED <<run_vars, pool_vars, series_list, series_result, disk, command, stage,
                   exit_code, session, expander_vars, locator_vars>>

LeaveSeriesStopsAtFailure ==
    /\ stage = "series"
    /\ phase \in {"returned", "failed", "pool_failed"}
    /\ phase' = "idle"
    /\ downloaded_series' =
           IF phase = "returned"
           THEN Append(downloaded_series, SeriesEntry(series_list[series_index], result))
           ELSE downloaded_series
    /\ series_outcome' = Append(series_outcome,
                                IF phase = "returned" THEN "result" ELSE "None")
    /\ series_index' = IF phase = "returned" THEN series_index + 1
                       ELSE Len(series_list) + 1
    /\ UNCHANGED <<run_vars, pool_vars, series_list, series_result, disk, command, stage,
                   exit_code, session, expander_vars, locator_vars>>

LeaveSeries ==
    /\ stage = "series"
    /\ phase \in {"returned", "failed", "pool_failed"}
    /\ phase' = "idle"
    /\ downloaded_series' =
           IF phase = "returned"
           THEN Append(downloaded_series, SeriesEntry(series_list[series_index], result))
           ELSE downloaded_series
    /\ series_outcome' = Append(series_outcome,
                                IF phase = "returned" THEN "result" ELSE "None")
    /\ series_index' = series_index + 1
    /\ UNCHANGED <<run_vars, pool_vars, series_list, series_result, disk, command, stage,
                   exit_code, session, expander_vars, locator_vars>>

\* the loop is over (lines 704-708)
ReturnAllSeries ==
    /\ stage = "series"
    /\ phase = "idle"
    /\ series_index > Len(series_list)
    /\ stage' = "returned"
    /\ series_result' = [total_series |-> Len(series_list),
                         downloaded_series |-> Len(downloaded_series),
                         series |-> downloaded_series]
    /\ UNCHANGED <<run_vars, pool_vars, series_list, series_index, downloaded_series,
                   series_outcome, disk, phase, command, exit_code, session,
                   expander_vars, locator_vars>>

\* download_all_series returned to the all-series command (lines 795-800)
AllSeriesExit ==
    /\ command = "all-series"
    /\ stage \in {"returned", "returned_none"}
    /\ exit_code' = IF stage = "returned" THEN 0 ELSE 1
    /\ stage' = "exited"
    /\ UNCHANGED <<run_vars, pool_vars, series_vars, disk, phase, command, session,
                   expander_vars, locator_vars>>

\* one run of the program from the command line; --max-workers is any integer
\* (line 727), and 0 stands for every width below 1
InitCli ==
    /\ max_workers \in 0..MaxWorkers
    /\ command \in Commands
    /\ stage = "start"
    /\ exit_code = 0
    /\ session = NewSession
    /\ episode_links = <<>>
    /\ \E t \in Titles : page_title = [u \in 1..MaxEpisodes |-> t]
    /\ content_size = [u \in 1..MaxEpisodes |-> MaxSize]
    /\ \/ disk = <<>>
       \/ /\ command = "video"
          /\ \E s \in 1..MaxSize : disk = [f \in {Filename(NoPosition, page_title[1])} |-> s]
    /\ start_disk = disk
    /\ run = 1
    /\ force \in BOOLEAN
    /\ phase = "idle"
    /\ w = <<>>
    /\ downloaded_videos = <<>>
    /\ skipped_count = 0
    /\ result = NotReturned
    /\ prev = NoPrev
    /\ series_list = <<>>
    /\ series_index = 0
    /\ downloaded_series = <<>>
    /\ series_result = NoSeriesResult
    /\ series_outcome = <<>>
    /\ page = NoPage
    /\ links = <<>>
    /\ video_page = NoVideoPage
    /\ video_info = NoInfo

NextCli ==
    \/ PoolNext
    \/ Return
    \/ Authenticate
    \/ DeniedExit
    \/ AuthExit
    \/ VideoCommand
    \/ VideoExit
    \/ PlaylistCommand
    \/ FetchPlaylist
    \/ PlaylistExit
    \/ GetSeriesList
    \/ EnterSeries
    \/ LeaveSeries
    \/ ReturnAllSeries
    \/ AllSeriesExit

SpecCli == InitCli /\ [][NextCli]_vars

\* -------------------------------------------------- the playlist expander
\* An href is a sequence of tokens; "?" begins its query string.
Hrefs == { <<"/episodes/", "a", "?", "x">>, <<"/episodes/", "a", "?", "y">>,
           <<"/episodes/", "b">>, <<"/about">> }

\* re.compile(r'/episodes/') finds the href, and '/episodes/' in href
\* (lines 536, 539, 553, 560)
IsEpisodeHref(href) == \E k \in 1..Len(href) : href[k] = "/episodes/"

\* href.split('?')[0]   (lines 541, 562)
CleanHrefKeepsQuery(href) == href

CleanHref(href) ==
    IF \E k \in 1..Len(href) : href[k] = "?"
    THEN SubSeq(href, 1, (CHOOSE k \in 1..Len(href) :
                             /\ href[k] = "?"
                             /\ \A j \in 1..(k - 1) : href[j] # "?") - 1)
    ELSE href

\* urljoin(playlist_url, clean_href) for an href that is an absolute path
FullUrl(href) == <<"https://gorails.com">> \o CleanHref(href)

\* full_url not in episode_links
InList(url, list) == \E k \in 1..Len(list) : list[k] = url

\* the loop over the chosen hyperlinks (lines 534-545, 558-565)
RECURSIVE AddLinks(_, _)
AddLinks(list, hrefs) ==
    IF hrefs = <<>> THEN list
    ELSE LET href == Head(hrefs)
             next == IF IsEpisodeHref(href) /\ ~InList(FullUrl(href), list)
                     THEN Append(list, FullUrl(href)) ELSE list
         IN  AddLinks(next, Tail(hrefs))

\* container.find('a', href=re.compile(r'/episodes/')): the first episode
\* hyperlink in the container, if it has one (line 536)
RECURSIVE FirstEpisodeHref(_)
FirstEpisodeHref(container) ==
    IF container = <<>> THEN <<>>
    ELSE IF IsEpisodeHref(Head(container)) THEN <<Head(container)>>
    ELSE FirstEpisodeHref(Tail(container))

RECURSIVE ContainerHrefs(_)
ContainerHrefs(containers) ==
    IF containers = <<>> THEN <<>>
    ELSE FirstEpisodeHref(Head(containers)) \o ContainerHrefs(Tail(containers))

\* lines 525-565: the containers when the page has any, else every hyperlink
\* of the main content
ExpandPlaylist(pg) ==
    IF pg.containers # <<>>
    THEN AddLinks(<<>>, ContainerHrefs(pg.containers))
    ELSE AddLinks(<<>>, pg.anchors)

SeqsUpTo(S, n) == UNION {[1..k -> S] : k \in 0..n}

\* the pages: episode containers in document order, or none and the hyperlinks
\* of the main content in document order
Pages ==
    {[containers |-> c, anchors |-> <<>>] :
         c \in SeqsUpTo(SeqsUpTo(Hrefs, MaxInContainer), MaxContainers) \ {<<>>}}
    \cup {[containers |-> <<>>, anchors |-> a] : a \in SeqsUpTo(Hrefs, MaxLinks)}

\* download_playlist has fetched a page
InitExpand ==
    /\ max_workers = MaxWorkers
    /\ command = "playlist"
    /\ stage = "operation"
    /\ exit_code = 0
    /\ session = PageResponse(SetCookie(NewSession, "_gorails_session", "saved"))
    /\ episode_links = <<>>
    /\ page_title = <<>>
    /\ content_size = <<>>
    /\ disk = <<>>
    /\ start_disk = <<>>
    /\ run = 1
    /\ force = FALSE
    /\ phase = "fetched"
    /\ w = <<>>
    /\ downloaded_videos = <<>>
    /\ skipped_count = 0
    /\ result = NotReturned
    /\ prev = NoPrev
    /\ series_list = <<>>
    /\ series_index = 0
    /\ downloaded_series = <<>>
    /\ series_result = NoSeriesResult
    /\ series_outcome = <<>>
    /\ page \in Pages
    /\ links = <<>>
    /\ video_page = NoVideoPage
    /\ video_info = NoInfo

\* the expansion of the fetched page (lines 523-569): no link, and
\* download_playlist returns None; or the links that become the tasks
ExpandPage ==
    /\ phase = "fetched"
    /\ links' = ExpandPlaylist(page)
    /\ phase' = IF links' = <<>> THEN "failed" ELSE "expanded"
    /\ UNCHANGED <<run_vars, pool_vars, disk, session, cli_vars, page, locator_vars>>

NextExpand == ExpandPage

SpecExpand == InitExpand /\ [][NextExpand]_vars

\* the hyperlinks of a sequence of containers, in document order
RECURSIVE Flatten(_)
Flatten(containers) ==
    IF containers = <<>> THEN <<>>
    ELSE Head(containers) \o Flatten(Tail(containers))

\* the pages whose main content holds episode containers and, after them,
\* hyperlinks outside any container: main_content.find_all('a', ...) would see
\* the hyperlinks of the containers and those outside (lines 550-556)
MixedPages ==
    {[containers |-> c, anchors |-> Flatten(c) \o a] :
         c \in SeqsUpTo(SeqsUpTo(Hrefs, MaxInContainer), MaxContainers) \ {<<>>},
         a \in SeqsUpTo(Hrefs, MaxLinks)}

\* download_playlist has fetched a page with episode containers
InitExpandMixed ==
    /\ max_workers = MaxWorkers
    /\ command = "playlist"
    /\ stage = "operation"
    /\ exit_code = 0
    /\ session = PageResponse(SetCookie(NewSession, "_gorails_session", "saved"))
    /\ episode_links = <<>>
    /\ page_title = <<>>
    /\ content_size = <<>>
    /\ disk = <<>>
    /\ start_disk = <<>>
    /\ run = 1
    /\ force = FALSE
    /\ phase = "fetched"
    /\ w = <<>>
    /\ downloaded_videos = <<>>
    /\ skipped_count = 0
    /\ result = NotReturned
    /\ prev = NoPrev
    /\ series_list = <<>>
    /\ series_index = 0
    /\ downloaded_series = <<>>
    /\ series_result = NoSeriesResult
    /\ series_outcome = <<>>
    /\ page \in MixedPages
    /\ links = <<>>
    /\ video_page = NoVideoPage
    /\ video_info = NoInfo

SpecExpandMixed == InitExpandMixed /\ [][NextExpand]_vars

\* -------------------------------------------------- the resource locator
\* get_video_info as a function of the episode page.  A text is a sequence of
\* words; a JSON-LD block that the page does not have is NoElement.
NoElement == [element |-> "none"]
NoDate == [date |-> "None"]

\* an expression evaluates to a value or raises an exception
Value(v) == [ok |-> TRUE, value |-> v]
Raise(e) == [ok |-> FALSE, exc |-> e]

Months == {"January", "February", "March", "April", "May", "June", "July", "August",
           "September", "October", "November", "December"}

\* the text of the paragraph that follows the title: no word when no paragraph
\* follows it
NoParagraph == <<>>

ParagraphTexts == { <<"September", "5,", "2019">>, <<"Posted", "in", "September">>,
                    <<"Hello">> }

\* any(month in date_text for month in [...])   (lines 238-240)
HasMonth(text) == \E k \in 1..Len(text) : text[k] \in Months

\* datetime.strptime(date_text, '%B %d, %Y')   (line 248)
Strptime(text) ==
    IF /\ Len(text) = 3
       /\ text[1] \in Months
       /\ text[2] \in {"5,"}
       /\ text[3] \in {"2019"}
    THEN Value([date |-> text])
    ELSE Raise("ValueError")

\* lines 226-251: the date of the paragraph after the title, when there is one
\* that names a month and parses
VisibleDate(pg) ==
    IF pg.has_h1 /\ pg.paragraph # NoParagraph /\ HasMonth(pg.paragraph)
    THEN (IF Strptime(pg.paragraph).ok THEN Strptime(pg.paragraph).value ELSE NoDate)
    ELSE NoDate

\* JSON values
JsonNull == [type |-> "null"]
JsonNumber == [type |-> "number"]
JsonString(words) == [type |-> "string", words |-> words]
JsonArray(items) == [type |-> "array", items |-> items]
JsonObject(members) == [type |-> "object", members |-> members]

\* script_elem.string: None for an element without a single text child (an
\* empty <script></script>), else the text
NoString == [string |-> "None"]
ScriptTexts == {"", "not json", "null", "5", "\"uploadDate\"", "[]", "[\"uploadDate\"]",
                "{}", "{\"uploadDate\": 5}", "{\"uploadDate\": \"yesterday\"}",
                "{\"uploadDate\": \"2019-09-05T00:00:00Z\"}"}

\* json.loads
JsonLoads(string) ==
    IF string = NoString THEN Raise("TypeError")
    ELSE CASE string.string = "null" -> Value(JsonNull)
           [] string.string = "5" -> Value(JsonNumber)
           [] string.string = "\"uploadDate\"" -> Value(JsonString(<<"uploadDate">>))
           [] string.string = "[]" -> Value(JsonArray(<<>>))
           [] string.string = "[\"uploadDate\"]" ->
                  Value(JsonArray(<<JsonString(<<"uploadDate">>)>>))
           [] string.string = "{}" -> Value(JsonObject(<<>>))
           [] string.string = "{\"uploadDate\": 5}" ->
                  Value(JsonObject([k \in {"uploadDate"} |-> JsonNumber]))
           [] string.string = "{\"uploadDate\": \"yesterday\"}" ->
                  Value(JsonObject([k \in {"uploadDate"} |-> JsonString(<<"yesterday">>)]))
           [] string.string = "{\"uploadDate\": \"2019-09-05T00:00:00Z\"}" ->
                  Value(JsonObject([k \in {"uploadDate"} |->
                                    JsonString(<<"2019-09-05T00:00:00", "Z">>)]))
           [] OTHER -> Raise("JSONDecodeError")

\* key in json_data
In(key, v) ==
    CASE v.type = "object" -> Value(key \in DOMAIN v.members)
      [] v.type = "array" ->
             Value(\E k \in 1..Len(v.items) : v.items[k] = JsonString(<<key>>))
      [] v.type = "string" -> Value(\E k \in 1..Len(v.words) : v.words[k] = key)
      [] OTHER -> Raise("TypeError")

\* json_data[key]
GetItem(v, key) ==
    IF v.type = "object"
    THEN (IF key \in DOMAIN v.members THEN Value(v.members[key]) ELSE Raise("KeyError"))
    ELSE Raise("TypeError")

\* upload_date_str.replace('Z', '+00:00')
ReplaceZ(v) ==
    IF v.type = "string"
    THEN Value([k \in 1..Len(v.words) |-> IF v.words[k] = "Z" THEN "+00:00" ELSE v.words[k]])
    ELSE Raise("AttributeError")

\* datetime.fromisoformat
FromIsoFormat(words) ==
    IF /\ Len(words) \in {1, 2}
       /\ words[1] = "2019-09-05T00:00:00"
       /\ Len(words) = 2 => words[2] \in {"+00:00", "-05:00"}
    THEN Value([date |-> words])
    ELSE Raise("ValueError")

\* except (json.JSONDecodeError, ValueError, KeyError)   (line 264);
\* JSONDecodeError is a ValueError
CaughtByDateParser == {"JSONDecodeError", "ValueError", "KeyError"}

\* the body of the try of lines 257-263
JsonLdBody(script) ==
    LET json_data == JsonLoads(script)
    IN  IF ~json_data.ok THEN json_data
        ELSE LET has == In("uploadDate", json_data.value)
             IN  IF ~has.ok THEN has
                 ELSE IF ~has.value THEN Value(NoDate)
                 ELSE LET upload_date_str == GetItem(json_data.value, "uploadDate")
                      IN  IF ~upload_date_str.ok THEN upload_date_str
                          ELSE LET replaced == ReplaceZ(upload_date_str.value)
                               IN  IF ~replaced.ok THEN replaced
                                   ELSE FromIsoFormat(replaced.value)

\* lines 254-265: the try with its except clause
JsonLdDate(script) ==
    LET body == JsonLdBody(script)
    IN  IF body.ok THEN body
        ELSE IF body.exc \in CaughtByDateParser THEN Value(NoDate)
        ELSE body

ReturnedNoInfo == [kind |-> "None"]

\* get_video_info (lines 210-287)
get_video_info(pg) ==
    IF ~pg.response_ok THEN ReturnedNoInfo
    ELSE LET visible == VisibleDate(pg)
             created_at == IF visible = NoDate /\ pg.script # NoElement
                           THEN JsonLdDate(pg.script)
                           ELSE Value(visible)
         IN  IF ~created_at.ok THEN ReturnedNoInfo
             ELSE IF ~pg.download_link THEN ReturnedNoInfo
             ELSE [kind |-> "info",
                   title |-> IF pg.has_h1 THEN "title" ELSE "Unknown Title",
                   created_at |-> created_at.value]

\* the episode pages: the fetch succeeds or not, and the page has or lacks a
\* title, a paragraph after it, a JSON-LD block and a download link
VideoPages ==
    [fetched : {TRUE}, response_ok : BOOLEAN, has_h1 : BOOLEAN,
     paragraph : ParagraphTexts \cup {NoParagraph},
     script : {NoElement, NoString} \cup [string : ScriptTexts],
     download_link : BOOLEAN]

InitInfo ==
    /\ max_workers = MaxWorkers
    /\ command = "video"
    /\ stage = "operation"
    /\ exit_code = 0
    /\ session = SetCookie(NewSession, "_gorails_session", "saved")
    /\ episode_links = <<>>
    /\ page_title = <<>>
    /\ content_size = <<>>
    /\ disk = <<>>
    /\ start_disk = <<>>
    /\ run = 1
    /\ force = FALSE
    /\ phase = "idle"
    /\ w = <<>>
    /\ downloaded_videos = <<>>
    /\ skipped_count = 0
    /\ result = NotReturned
    /\ prev = NoPrev
    /\ series_list = <<>>
    /\ series_index = 0
    /\ downloaded_series = <<>>
    /\ series_result = NoSeriesResult
    /\ series_outcome = <<>>
    /\ page = NoPage
    /\ links = <<>>
    /\ video_page \in VideoPages
    /\ video_info = NoInfo

\* get_video_info is called on the page
LocateVideo ==
    /\ video_page.fetched
    /\ video_info = NoInfo
    /\ video_info' = get_video_info(video_page)
    /\ UNCHANGED <<run_vars, pool_vars, disk, phase, session, cli_vars, expander_vars,
                   video_page>>

NextInfo == LocateVideo

SpecInfo == InitInfo /\ [][NextInfo]_vars

\* ------------------------------------------ one call of _download_file
\* One episode, and an output directory that may already hold its file, of any
\* size up to one more than the largest content.
InitFile ==
    /\ max_workers \in 1..MaxWorkers
    /\ episode_links = <<1>>
    /\ page_title \in [{1} -> Titles]
    /\ content_size \in [{1} -> 1..MaxSize]
    /\ \/ disk = <<>>
       \/ \E s \in 0..(MaxSize + 1) :
            disk = [f \in {Filename(Position(1), page_title[1])} |-> s]
    /\ start_disk = disk
    /\ run = 1
    /\ force \in BOOLEAN
    /\ phase = "running"
    /\ w = [p \in {1} |-> Queued]
    /\ downloaded_videos = <<>>
    /\ skipped_count = 0
    /\ result = NotReturned
    /\ prev = NoPrev
    /\ session = SetCookie(NewSession, "_gorails_session", "saved")
    /\ command = "playlist"
    /\ stage = "operation"
    /\ exit_code = 0
    /\ series_list = <<>>
    /\ series_index = 0
    /\ downloaded_series = <<>>
    /\ series_result = NoSeriesResult
    /\ series_outcome = <<>>
    /\ page = NoPage
    /\ links = <<>>
    /\ video_page = NoVideoPage
    /\ video_info = NoInfo

SpecFile == InitFile /\ [][NextFile]_vars


\* --------------------------------------------------------------- claims
\* a call of _download_file whose locals are alive (it computed its filename and
\* its future was not yet consumed)
InCall(p) == w[p].filename # <<>>

\* that call returned an outcome (a dict, not None)
ReturnedOutcome(p) == InCall(p) /\ w[p].pc = "done" /\ w[p].out.kind = "result"

\* the first probe answered a positive size that the local file has reached
ProbedComplete(p) ==
    /\ InCall(p) /\ ~force /\ w[p].pre_exists
    /\ w[p].h1_ok /\ w[p].h1_size > 0 /\ w[p].local_size >= w[p].h1_size

\* C1: with force=false, an existing file and a first probe that reports a
\* size R > 0 that the local size has reached, the call returns a skipped
\* outcome, issues no GET, and the file keeps its bytes.
C1_CompleteFileIsSkipped ==
    \A p \in Positions :
        ProbedComplete(p) =>
            /\ ReturnedOutcome(p) /\ w[p].out.skipped
            /\ w[p].gets = 0
            /\ w[p].file_mode = ""
            /\ Exists(w[p].filename) /\ GetSize(w[p].filename) = w[p].pre_size

C1_Witness ==
    \E p \in Positions :
        ProbedComplete(p) /\ w[p].pre_size > w[p].h1_size /\ w[p].out.skipped

\* the first probe answered a size R larger than the local size L
ProbedIncomplete(p) ==
    /\ InCall(p) /\ ~force /\ w[p].pre_exists
    /\ w[p].h1_ok /\ w[p].h1_size > w[p].pre_size

\* C2: with force=false, an existing file of size L and a remote size R > L,
\* the GET carries 'Range: bytes=L-', the file is opened for append and never
\* truncated, and a completed transfer leaves R bytes on disk, whatever the
\* second probe answers.
C2_ResumeAppendsUpToRemoteSize ==
    \A p \in Positions :
        ProbedIncomplete(p) =>
            /\ w[p].gets > 0 => (w[p].range /\ w[p].start_byte = w[p].pre_size)
            /\ w[p].file_mode # "wb"
            /\ (ReturnedOutcome(p) /\ ~w[p].out.skipped) =>
                   GetSize(w[p].filename) = content_size[Url(p)]

\* C3: with force=true, whatever the local file, no HEAD probe is issued, the
\* GET carries no Range header, the file is opened truncating (what is on disk
\* while streaming is only what this call wrote, from byte 0), and a returned
\* outcome is never marked skipped.
C3_ForceDownloadsFromByteZero ==
    \A p \in Positions :
        (InCall(p) /\ force) =>
            /\ w[p].heads = 0
            /\ ~w[p].range /\ w[p].start_byte = 0
            /\ w[p].file_mode \in {"", "wb"}
            /\ w[p].file_mode = "wb" => GetSize(w[p].filename) = w[p].downloaded
            /\ ReturnedOutcome(p) => ~w[p].out.skipped

C3_Witness ==
    \E p \in Positions :
        /\ ReturnedOutcome(p) /\ force
        /\ w[p].pre_exists /\ w[p].pre_size > content_size[Url(p)]
        /\ GetSize(w[p].filename) = content_size[Url(p)]

\* a probe of this call raised, or reported no content-length
Unverified(p) ==
    \/ w[p].heads >= 1 /\ (~w[p].h1_ok \/ w[p].h1_size = 0)
    \/ w[p].heads = 2 /\ (~w[p].h2_ok \/ w[p].h2_size = 0)

\* C4: with force=false and an existing file, when either probe cannot verify
\* the remote size the call returns a skipped outcome and the file is neither
\* truncated nor overwritten.
C4_UnverifiedRemoteSizeSkips ==
    \A p \in Positions :
        (InCall(p) /\ ~force /\ w[p].pre_exists /\ Unverified(p)) =>
            /\ w[p].file_mode = ""
            /\ w[p].pc = "done" => (w[p].out.kind = "result" /\ w[p].out.skipped)
            /\ GetSize(w[p].filename) = w[p].pre_size

\* C8: the 'size' of an outcome that is not marked skipped is the size of the
\* file on disk when the call returns.
C8_ReportedSizeIsSizeOnDisk ==
    \A p \in Positions :
        (ReturnedOutcome(p) /\ ~w[p].out.skipped) =>
            w[p].out.size = GetSize(w[p].filename)

\* C9: the 'size' of a skipped outcome is the size of the file that was
\* already there, and when the skip was decided on a known (reported,
\* positive) remote size, the local size had reached it.
C9_SkippedReportsLocalSize ==
    \A p \in Positions :
        (ReturnedOutcome(p) /\ w[p].out.skipped) =>
            /\ w[p].pre_exists
            /\ w[p].out.size = w[p].pre_size
            /\ GetSize(w[p].filename) = w[p].pre_size
            /\ (w[p].h1_ok /\ w[p].h1_size > 0) => w[p].pre_size >= w[p].h1_size

C9_Witness ==
    \E p \in Positions :
        /\ ReturnedOutcome(p) /\ w[p].out.skipped
        /\ w[p].h1_ok /\ w[p].h1_size > 0 /\ w[p].out.size = w[p].h1_size


\* ------------------------------------------- claims on download_playlist
DigitValue(c) == CHOOSE d \in 0..9 : Digit(d) = c

\* the ordinal position a filename carries in its two-digit prefix
PositionOf(filename) == 10 * DigitValue(filename[1]) + DigitValue(filename[2])

VideoPositions(videos) == {PositionOf(videos[k].filename) : k \in 1..Len(videos)}

\* the positions whose task returned an outcome
Succeeded == {p \in Positions : w[p].out.kind = "result"}

\* the positions whose task returned None or raised
Failed == {p \in Positions : w[p].pc = "done" /\ w[p].out.kind \in {"None", "raised"}}

\* C5 as stated: the positions of the entries of 'videos' are exactly 1..N, for
\* every completion order and every pattern of success and failure.
C5_PositionsAreOneToN ==
    phase = "returned" => VideoPositions(result.videos) = 1..N

\* C5 as amended: the positions of the entries of 'videos' are exactly the
\* positions of the episodes that returned an outcome, each once and each with
\* its own episode's title, for every completion order; they are 1..N when no
\* episode failed.
C5_PositionsAreThoseThatSucceeded ==
    phase = "returned" =>
        /\ VideoPositions(result.videos) = Succeeded
        /\ Len(result.videos) = Cardinality(Succeeded)
        /\ \A k \in 1..Len(result.videos) :
               result.videos[k].title =
                   page_title[Url(PositionOf(result.videos[k].filename))]
        /\ Failed = {} => VideoPositions(result.videos) = 1..N

C5_Witness ==
    /\ phase = "returned" /\ N >= 2 /\ Len(result.videos) = N
    /\ PositionOf(result.videos[1].filename) = N

\* the current run has force=false and follows a run with force=false that
\* completed the transfer of every episode (downloaded = total_episodes)
SecondRunOfComplete == prev.ran /\ ~prev.force /\ prev.complete /\ ~force

\* C6 as stated: the second run returns downloaded=0 and skipped=N and changes
\* no file.
C6_SecondRunSkipsAll ==
    (phase = "returned" /\ SecondRunOfComplete) =>
        /\ result.downloaded = 0
        /\ result.skipped = N
        /\ disk = start_disk

\* C6 as amended: the second run changes no file, every call of _download_file
\* in it returns a skipped outcome, and it returns downloaded=0 with skipped
\* the number of episodes whose task returned an outcome, which is N when no
\* episode failed before its transfer.
C6_SecondRunSkipsEveryEpisodeReached ==
    SecondRunOfComplete =>
        /\ disk = start_disk
        /\ \A p \in Positions :
               /\ w[p].file_mode = "" /\ w[p].gets = 0
               /\ (InCall(p) /\ w[p].pc = "done") =>
                      (w[p].out.kind = "result" /\ w[p].out.skipped)
        /\ phase = "returned" =>
               /\ result.downloaded = 0
               /\ result.skipped = Cardinality(Succeeded)
               /\ Failed = {} => result.skipped = N

C6_Witness ==
    /\ phase = "returned" /\ SecondRunOfComplete
    /\ N >= 2 /\ result.skipped = N /\ result.downloaded = 0

\* a step of the pipeline of the task at position p
WorkerStep(p) ==
    \/ WorkerRaises(p) \/ GetVideoInfo(p) \/ GetDirectVideoUrl(p)
    \/ Head1(p) \/ Head2(p) \/ Get(p)
    \/ Chunk(p) \/ StreamError(p) \/ StreamEnd(p)

\* C7: a failed episode stops no sibling: while the playlist runs, every
\* started task can take its next step and a queued task can start as soon as
\* a thread is free, whatever has failed; when download_playlist returns every
\* task is terminal, and 'videos' and the two counts hold exactly the episodes
\* that returned an outcome.
C7_FailureLeavesSiblingsRunning ==
    /\ phase = "running" =>
           /\ \A p \in Positions :
                  w[p].pc \notin {"queued", "done"} => ENABLED WorkerStep(p)
           /\ ((\E p \in Positions : w[p].pc = "queued")
                 /\ Cardinality(Active) < max_workers) =>
                  ENABLED (\E p \in Positions : StartWorker(p))
    /\ phase = "returned" =>
           /\ \A p \in Positions : w[p].pc = "done"
           /\ \A k \in 1..Len(result.videos) : result.videos[k].kind = "result"
           /\ VideoPositions(result.videos) = Succeeded
           /\ VideoPositions(result.videos) \cap Failed = {}
           /\ result.downloaded + result.skipped = Cardinality(Succeeded)
           /\ result.skipped =
                  Cardinality({p \in Succeeded : w[p].out.skipped})

C7_Witness ==
    /\ phase = "returned" /\ N >= 2
    /\ \E p \in Failed : \E q \in Succeeded :
           /\ ~w[q].out.skipped
           /\ \A k \in 1..Len(result.videos) :
                  PositionOf(result.videos[k].filename) = q

\* C10: two positions of one run never get the same destination file, even
\* with identical titles, so two workers never have the same file open.
C10_DistinctDestinations ==
    \A p, q \in Positions :
        p # q =>
            /\ Filename(Position(p), page_title[Url(p)])
                   # Filename(Position(q), page_title[Url(q)])
            /\ (InCall(p) /\ InCall(q)) => w[p].filename # w[q].filename
            /\ ~(/\ w[p].pc = "stream" /\ w[q].pc = "stream"
                 /\ w[p].filename = w[q].filename)

C10_Witness ==
    \E p, q \in Positions :
        /\ p # q
        /\ w[p].pc = "stream" /\ w[q].pc = "stream"
        /\ w[p].title = w[q].title

\* the episodes whose pipeline is in progress: page fetch, redirect resolution,
\* probe or transfer
InPipeline ==
    {p \in Positions :
        w[p].pc \in {"info", "redirect", "head1", "head2", "get", "stream", "stalled"}}

\* C11: at every moment of a run at most max_workers episodes are in progress,
\* and while max_workers are in progress no waiting episode can start.
C11_AtMostMaxWorkersInProgress ==
    /\ Cardinality(InPipeline) <= max_workers
    /\ Cardinality(InPipeline) = max_workers =>
           \A p \in Positions : w[p].pc = "queued" => ~ENABLED StartWorker(p)

C11_Witness ==
    /\ Cardinality(InPipeline) = max_workers
    /\ \E p \in Positions : w[p].pc = "queued"
    /\ \E p \in Positions : w[p].pc = "stream"

\* the shared session as authenticate left it
AuthenticatedSession == SetCookie(NewSession, "_gorails_session", "saved")

\* C12: every playlist worker sends all of its requests on its own session,
\* which _create_session seeded with a copy of the shared session's cookies,
\* and the shared session's headers and cookies are the same in every state,
\* whatever the workers receive and however they interleave.
C12_WorkersLeaveSharedSessionAlone ==
    /\ session = AuthenticatedSession
    /\ \A p \in Positions :
           /\ w[p].shared_requests = 0
           /\ w[p].pc = "info" =>
                  /\ w[p].session.cookies = session.cookies
                  /\ w[p].session.headers = {"User-Agent"}
           /\ w[p].pc \in {"redirect", "head1", "head2", "get", "stream"} =>
                  w[p].session = PageResponse(CreateSession)

C12_Witness ==
    \E p, q \in Positions :
        /\ p # q
        /\ w[p].pc = "stream" /\ w[p].session.cookies["_gorails_session"] = "rotated"
        /\ w[q].pc = "info" /\ w[q].session.cookies["_gorails_session"] = "saved"
        /\ session.cookies["_gorails_session"] = "saved"

\* a non-forced transfer at position p broke while streaming
BrokeNow(p) == InCall(p) /\ ~force /\ w[p].broke /\ w[p].pc = "done"

\* the current non-forced call at position p follows a non-forced run whose
\* transfer at p broke while streaming, after it had written some of the body
AfterBroken(p) ==
    /\ prev.ran /\ ~prev.force /\ p \in prev.broke
    /\ ~force /\ InCall(p) /\ w[p].pre_size > 0

\* C17: a non-forced transfer that breaks while streaming returns no outcome
\* and leaves on disk the bytes it wrote; a later non-forced transfer of the
\* same target does not restart from byte 0: its GET carries a Range header
\* that starts at the size left on disk, and the file is never truncated.
C17_BrokenTransferIsResumedLater ==
    \A p \in Positions :
        /\ BrokeNow(p) =>
               /\ w[p].out.kind = "None"
               /\ Exists(w[p].filename)
               /\ GetSize(w[p].filename) = w[p].downloaded
        /\ AfterBroken(p) =>
               /\ w[p].pre_exists /\ w[p].pre_size = start_disk[w[p].filename]
               /\ w[p].gets > 0 => (w[p].range /\ w[p].start_byte = w[p].pre_size)
               /\ w[p].file_mode # "wb"
               /\ GetSize(w[p].filename) >= w[p].pre_size

\* C18: download_playlist returns its aggregate only after every one of the N
\* tasks has reached a terminal state (a result, nothing, or an exception) and
\* was consumed: at the step that returns and in every state after it, no task
\* is in progress and no file is being written.
C18_ReturnsAfterEveryTaskTerminated ==
    /\ [](phase = "returned" =>
              /\ InPipeline = {}
              /\ \A p \in Positions :
                     /\ w[p].pc = "done" /\ w[p].collected
                     /\ w[p].out.kind \in {"result", "None", "raised"}
              /\ result.total_episodes = N)
    /\ [][(phase' = "returned") =>
              /\ \A p \in Positions : w[p].pc = "done" /\ w[p].collected
              /\ disk' = disk]_vars

C18_Witness ==
    /\ phase = "returned" /\ N >= 2
    /\ \E p, q \in Positions :
           /\ w[p].out.kind = "raised"
           /\ w[q].out.kind = "result" /\ ~w[q].out.skipped
    /\ result.downloaded = 1

\* a network call of some task was left unanswered
AnyStalled == \E p \in Positions : w[p].pc = "stalled"

\* C20: there is no timeout and no cancellation.  If no network call stalls,
\* download_playlist eventually returns; a task whose call stalled never
\* finishes, and from then on download_playlist cannot return, whatever the
\* other tasks do.
C20_ReturnsUnlessACallStalls ==
    /\ ([]~AnyStalled) => <>(phase = "returned")
    /\ [](AnyStalled => (phase = "running" /\ ~ENABLED Return))
    /\ [][\A p \in Positions : w[p].pc = "stalled" => w'[p].pc = "stalled"]_vars

C20_Witness ==
    /\ phase = "running" /\ N >= 2
    /\ \E p \in Positions :
           /\ w[p].pc = "stalled"
           /\ \A q \in Positions \ {p} : w[q].pc = "done" /\ w[q].collected

\* C25: with force=false, a call of _download_file that found a file never
\* leaves it smaller than it found it, whether it returns an outcome or fails,
\* whatever the two probes and the content GET answer.
C25_NonForcedCallNeverShrinksFile ==
    \A p \in Positions :
        (InCall(p) /\ ~force /\ w[p].pre_exists /\ w[p].pc = "done") =>
            /\ Exists(w[p].filename)
            /\ GetSize(w[p].filename) >= w[p].pre_size

\* C26: after a resumed transfer completes, the file is never larger than the
\* remote content: what is appended after the bytes that were there is the
\* rest of the content, also when the server ignores the Range header and
\* answers with the whole body.
C26_ResumedFileNeverExceedsRemoteSize ==
    \A p \in Positions :
        (ReturnedOutcome(p) /\ w[p].resume_download /\ ~w[p].out.skipped) =>
            /\ w[p].file_mode = "ab" /\ w[p].range
            /\ GetSize(w[p].filename) <= content_size[Url(p)]

\* C27: every result download_playlist returns has downloaded >= 0 and
\* skipped >= 0, downloaded + skipped is the length of 'videos' and at most
\* total_episodes, skipped is the number of entries of 'videos' marked skipped,
\* total_episodes is the number of expanded episode URLs, and
\* downloaded + skipped = total_episodes exactly when no episode failed.
C27_CountsOfTheResultAgree ==
    phase = "returned" =>
        /\ result.downloaded >= 0 /\ result.skipped >= 0
        /\ result.downloaded + result.skipped = Len(result.videos)
        /\ Len(result.videos) <= result.total_episodes
        /\ result.skipped =
               Cardinality({k \in 1..Len(result.videos) : result.videos[k].skipped})
        /\ result.total_episodes = Len(episode_links)
        /\ (result.downloaded + result.skipped = result.total_episodes) <=> (Failed = {})

C27_Witness ==
    /\ phase = "returned" /\ N >= 2
    /\ result.skipped = 1 /\ result.downloaded = 0
    /\ \E p \in Failed : w[p].out.kind = "None"

\* ----------- claims on the bulk operation and on the command line
\* the series of the catalog whose playlist download returned a result, among
\* those processed so far, in catalog order
SeriesWithResult ==
    LET Ok(series) == series_outcome[series] = "result"
    IN  SelectSeq(SubSeq(series_list, 1, Len(series_outcome)), Ok)

\* C13: a series whose playlist download returns nothing is left out of the
\* 'series' list and the loop goes on: the list holds exactly the series whose
\* download returned a result, in catalog order, and when download_all_series
\* returns every series of the catalog was processed, total_series is the
\* length of the catalog and downloaded_series the number of series whose
\* download returned a result.
C13_FailedSeriesIsLeftOutAndLoopGoesOn ==
    command = "all-series" =>
        /\ [k \in 1..Len(downloaded_series) |-> downloaded_series[k].slug]
               = SeriesWithResult
        /\ stage = "series" => Len(series_outcome) = series_index - 1
        /\ stage = "returned" =>
               /\ Len(series_outcome) = Len(series_list)
               /\ series_result.total_series = Len(series_list)
               /\ series_result.downloaded_series =
                      Cardinality({i \in 1..Len(series_list) :
                                     series_outcome[i] = "result"})
               /\ series_result.series = downloaded_series

C13_Witness ==
    /\ command = "all-series" /\ stage = "returned"
    /\ series_outcome = <<"None", "result">>
    /\ series_result.total_series = 2 /\ series_result.downloaded_series = 1
    /\ series_result.series[1].slug = 2

\* authenticate succeeded: the shared session carries the session cookie
Authenticated == "_gorails_session" \in DOMAIN session.cookies

\* get_series_list returned an empty catalog to download_all_series
EmptyCatalog ==
    /\ command = "all-series" /\ Authenticated
    /\ stage \in {"returned_none", "returned", "exited"}
    /\ series_list = <<>>

\* C14: with an empty catalog the bulk operation is a no-op that is not an
\* error: download_all_series does not return its failure value, no file is
\* written, and the all-series command does not exit with code 1.
C14_EmptyCatalogIsNotAnError ==
    EmptyCatalog =>
        /\ stage # "returned_none"
        /\ disk = <<>>
        /\ stage = "exited" => exit_code # 1

\* the operation of the command failed: it returned nothing (or raised)
OperationFailed ==
    \/ command = "video" /\ w[1].out.kind # "result"
    \/ command = "playlist" /\ phase \in {"failed", "pool_failed"}
    \/ command = "all-series" /\ series_result = NoSeriesResult

AllTerminated == \A p \in DOMAIN w : w[p].pc = "done"

\* C19: download_all_series takes the series one at a time in catalog order:
\* tasks run only inside the playlist download of the current series, the loop
\* moves to the next series and a playlist download submits its tasks only when
\* every task of the series before has terminated, and never more than
\* max_workers transfers are in progress.
C19_OneSeriesAtATime ==
    /\ [](command = "all-series" =>
              /\ Cardinality(InPipeline) <= max_workers
              /\ phase # "running" => AllTerminated
              /\ InPipeline # {} =>
                     (stage = "series" /\ series_index \in 1..Len(series_list)))
    /\ [][command = "all-series" =>
              /\ series_index' # series_index =>
                     (AllTerminated /\ series_index' = series_index + 1)
              /\ episode_links' # episode_links => AllTerminated
              /\ (phase # "running" /\ phase' = "running") => AllTerminated]_vars

C19_Witness ==
    /\ command = "all-series" /\ series_index = 2
    /\ Len(downloaded_series) = 1 /\ downloaded_series[1].downloaded = 2
    /\ Cardinality({p \in Positions : w[p].pc = "stream"}) = 2

\* the session holds the session credential
Credential(s) == "_gorails_session" \in DOMAIN s.cookies

\* the session on which the task at position p sends its requests
SessionOf(p) == IF SessionArg = "own" THEN w[p].session ELSE session

\* no request to the site was sent and no answer received
NothingRequested ==
    /\ phase = "idle" /\ w = <<>> /\ episode_links = <<>>
    /\ series_list = <<>> /\ series_index = 0
    /\ session.cookies \in {NewSession.cookies, AuthenticatedSession.cookies}
    /\ disk = start_disk

\* C24: in the video, playlist and all-series commands nothing is fetched,
\* probed or transferred before authenticate has returned true; from then on
\* the shared session holds the session credential and so does the session of
\* every task that sends a request; when authenticate returns false nothing is
\* requested at all.
C24_RequestsOnlyAfterAuthentication ==
    /\ [](command \in {"video", "playlist", "all-series"} =>
              /\ stage \in {"start", "denied"} => (~Authenticated /\ NothingRequested)
              /\ ~Authenticated => NothingRequested
              /\ stage \notin {"start", "denied", "exited"} => Authenticated
              /\ \A p \in Positions :
                     w[p].pc \notin {"queued", "done"} =>
                         /\ Authenticated
                         /\ Credential(SessionOf(p))
                         /\ SessionArg = "own" => w[p].session.headers = {"User-Agent"})
    /\ [][(command \in {"video", "playlist", "all-series"} /\ ~Authenticated) =>
              UNCHANGED <<w, phase, disk, episode_links, series_list, series_index>>]_vars

C24_Witness ==
    /\ command = "all-series" /\ stage = "series" /\ series_index = 2
    /\ \E p, q \in Positions :
           /\ p # q
           /\ w[p].pc = "stream" /\ w[p].session.cookies["_gorails_session"] = "rotated"
           /\ w[q].pc = "info" /\ Credential(w[q].session)

\* the positions whose future was consumed with a result
CollectedResults == {p \in Positions : w[p].collected /\ w[p].out.kind = "result"}

\* C28: in one run of download_playlist every expanded link is submitted once,
\* with its 1-based index as position and a progress task of its own; no
\* episode is processed twice or left out, and each result gives at most one
\* entry of 'videos'.
C28_EveryEpisodeSubmittedOnce ==
    /\ []((InPlaylist /\ phase \in {"running", "returned"}) =>
              /\ DOMAIN w = 1..Len(episode_links)
              /\ Len(DownloadTasks) = Len(episode_links)
              /\ \A p \in Positions :
                     /\ DownloadTasks[p].url = episode_links[p]
                     /\ DownloadTasks[p].position = p
                     /\ \A q \in Positions :
                            p # q => DownloadTasks[p].task_id # DownloadTasks[q].task_id
                     /\ w[p].calls = SubSeq(Pipeline, 1, Len(w[p].calls))
                     /\ w[p].title # <<>> => w[p].title = page_title[DownloadTasks[p].url]
                     /\ w[p].filename # <<>> =>
                            PositionOf(w[p].filename) = DownloadTasks[p].position
              /\ Len(downloaded_videos) = Cardinality(CollectedResults)
              /\ VideoPositions(downloaded_videos) = CollectedResults
              /\ phase = "returned" =>
                     /\ \A p \in Positions : w[p].pc = "done" /\ w[p].collected
                     /\ Len(result.videos) = Cardinality(VideoPositions(result.videos))
                     /\ Len(result.videos) <= Len(episode_links))
    /\ [][InPlaylist =>
              /\ (phase # "running" /\ phase' = "running") =>
                     w' = [p \in 1..Len(episode_links') |-> Queued]
              /\ (phase = "running" /\ phase' \in {"running", "returned"}) =>
                     /\ episode_links' = episode_links
                     /\ \A p \in Positions :
                            /\ w[p].pc # "queued" => w'[p].pc # "queued"
                            /\ w[p].pc = "done" => w'[p].pc = "done"
                            /\ w[p].collected => w'[p] = w[p]
                     /\ Len(downloaded_videos') <= Len(downloaded_videos) + 1]_vars

C28_Witness ==
    /\ command = "playlist" /\ phase = "returned" /\ N >= 2
    /\ Len(result.videos) = N
    /\ PositionOf(result.videos[1].filename) = 2
    /\ PositionOf(result.videos[2].filename) = 1

\* the playlist page was fetched and expanded to at least one episode link
ExpandedSomeLink == phase \in {"running", "returned", "pool_failed"}

\* C29 as stated: the exit code of the playlist command depends on the
\* expansion of the playlist only: it is 1 exactly when authenticate failed,
\* the playlist page could not be fetched or no episode link was found, and 0
\* whenever a link was expanded.
C29_ExitCodeDependsOnExpansionOnly ==
    (command = "playlist" /\ stage = "exited") =>
        /\ exit_code = 1 <=> (~Authenticated \/ phase = "failed")
        /\ ExpandedSomeLink => exit_code = 0

\* C29 as amended: the exit code of the playlist command is 1 exactly when
\* authenticate failed or download_playlist returned nothing, which it does
\* when the page could not be fetched, when no episode link was found, and when
\* links were expanded but the pool could not be created for a width below 1;
\* it is 0 whenever a link was expanded and the pool was created, also when
\* every episode failed and the result reports downloaded=0 and skipped=0.
C29_ExitCodeFollowsExpansionAndPool ==
    (command = "playlist" /\ stage = "exited") =>
        /\ exit_code \in {0, 1}
        /\ exit_code = 1 <=>
               (~Authenticated \/ phase = "failed" \/ (ExpandedSomeLink /\ max_workers < 1))
        /\ (ExpandedSomeLink /\ max_workers >= 1) =>
               /\ exit_code = 0 /\ phase = "returned"
               /\ result.total_episodes = Len(episode_links)
        /\ phase = "pool_failed" <=> (ExpandedSomeLink /\ max_workers < 1)
        /\ ~ExpandedSomeLink => (episode_links = <<>> /\ w = <<>>)

C29_Witness ==
    /\ command = "playlist" /\ stage = "exited" /\ exit_code = 0
    /\ N >= 2 /\ Failed = Positions
    /\ result.downloaded = 0 /\ result.skipped = 0 /\ result.videos = <<>>

\* ------------------------------------------ claims on the playlist expander
\* the hyperlinks the strategy in use looks at, in document order: the first
\* episode hyperlink of each container, or every hyperlink of the main content
Candidates ==
    IF page.containers # <<>>
    THEN ContainerHrefs(page.containers)
    ELSE SelectSeq(page.anchors, IsEpisodeHref)

\* the tokens of an href before its query string
BeforeQuery(href) ==
    LET marks == {k \in 1..Len(href) : href[k] = "?"}
    IN  IF marks = {} THEN href
        ELSE SubSeq(href, 1, (CHOOSE k \in marks : \A j \in marks : k <= j) - 1)

\* the place in the page of the first hyperlink to the URL
FirstOccurrence(url) ==
    CHOOSE k \in 1..Len(Candidates) :
        /\ <<"https://gorails.com">> \o BeforeQuery(Candidates[k]) = url
        /\ \A j \in 1..(k - 1) :
               <<"https://gorails.com">> \o BeforeQuery(Candidates[j]) # url

Expanded == phase \in {"expanded", "failed"}

\* C16: the expanded links are the URLs of the page's episode hyperlinks
\* without their query strings, each once, in the order of their first
\* occurrence in the document: hyperlinks that differ only in the query string
\* give one entry, under the container strategy and under the fallback.
C16_LinksAreDistinctInDocumentOrder ==
    Expanded =>
        /\ \A i, j \in 1..Len(links) : i # j => links[i] # links[j]
        /\ {links[k] : k \in 1..Len(links)} =
               {<<"https://gorails.com">> \o BeforeQuery(Candidates[k]) :
                    k \in 1..Len(Candidates)}
        /\ \A i, j \in 1..Len(links) :
               i < j => FirstOccurrence(links[i]) < FirstOccurrence(links[j])
        /\ \A i, j \in 1..Len(Candidates) :
               BeforeQuery(Candidates[i]) = BeforeQuery(Candidates[j]) =>
                   Cardinality({k \in 1..Len(links) :
                       links[k] = <<"https://gorails.com">>
                                      \o BeforeQuery(Candidates[i])}) = 1

C16_Witness ==
    /\ phase = "expanded"
    /\ page.containers = << <<<<"/about">>, <<"/episodes/", "a", "?", "y">>>>,
                            <<<<"/episodes/", "a", "?", "x">>, <<"/episodes/", "b">>>> >>
    /\ links = << <<"https://gorails.com", "/episodes/", "a">> >>

\* what the fallback scan of the page's main content would find
FallbackLinks == AddLinks(<<>>, page.anchors)

\* what the scan of the episode containers finds
ContainerLinks == AddLinks(<<>>, ContainerHrefs(page.containers))

\* C21: expansion fails only when both strategies yield no link: whenever the
\* fallback scan of the page would find an episode link, expansion succeeds,
\* also when the page has episode containers none of which holds an episode
\* link.
C21_FailsOnlyWhenBothStrategiesFindNothing ==
    Expanded =>
        /\ phase = "failed" => (ContainerLinks = <<>> /\ FallbackLinks = <<>>)
        /\ FallbackLinks # <<>> => (phase = "expanded" /\ links # <<>>)

\* C22: download_video calls get_video_info, get_direct_video_url and
\* _download_file in that order, each at most once; when get_video_info fails
\* nothing else is called, when get_direct_video_url fails _download_file is
\* not called, and in both cases the call returns None without raising and no
\* file of the output directory is created or modified.
C22_LocatorResolverTransferInOrder ==
    \A p \in Positions :
        /\ w[p].calls = SubSeq(Pipeline, 1, Len(w[p].calls))
        /\ w[p].heads + w[p].gets > 0 => w[p].calls = Pipeline
        /\ w[p].failed_in = "get_video_info" => w[p].calls = <<"get_video_info">>
        /\ w[p].failed_in = "get_direct_video_url" =>
               w[p].calls = <<"get_video_info", "get_direct_video_url">>
        /\ w[p].failed_in # "" =>
               /\ w[p].pc = "done" /\ w[p].out = ReturnedNone
               /\ w[p].filename = <<>> /\ w[p].file_mode = ""
               /\ disk = start_disk

C22_Witness ==
    \E p \in Positions :
        /\ w[p].failed_in = "get_direct_video_url"
        /\ prev.ran /\ start_disk # <<>>

\* ------------------------------------------ claims on the resource locator
\* C23: failing to obtain a creation date is never an error: for every page
\* that is fetched and holds a download link, whatever its date paragraph and
\* its JSON-LD block hold, get_video_info returns a descriptor, whose
\* created_at is a date or absent.
C23_MissingDateIsNeverAnError ==
    (video_info # NoInfo /\ video_page.response_ok /\ video_page.download_link) =>
        /\ video_info.kind = "info"
        /\ video_info.created_at = NoDate \/ video_info.created_at.date # "None"

====
